---------------------------- MODULE Spec2Model ----------------------------
(***************************************************************************)
(* Model of synology/util/schedule_parser.go: the crontab schedule parser. *)
(*                                                                         *)
(* Representation.                                                         *)
(*  - A Go string is a sequence of one-character strings.                  *)
(*  - An int64 used as a number is a record [hi, mid, lo] of three limbs   *)
(*    (20 + 22 + 22 bits) holding its two's-complement bit pattern, so     *)
(*    that addition wraps at 2^64 exactly as the machine's does while each *)
(*    limb stays inside the model checker's integers.                      *)
(*  - An int64 used as a bitmask is the set of its set bit positions, a    *)
(*    subset of 0..63.                                                     *)
(*  - A (value, error) return is a record with kind "ok" or "err"; a       *)
(*    run-time panic of the Go program is the third kind "panic".          *)
(***************************************************************************)
EXTENDS Integers, Sequences, FiniteSets, TLC

VARIABLES call, ret

vars == <<call, ret>>

---------------------------------------------------------------------------
(* int64 arithmetic                                                        *)

LimbBase == 2^22
TopBase  == 2^20

\* The int64 with the value of the small natural n (n < 2^31).
I64(n) == [hi |-> 0, mid |-> n \div LimbBase, lo |-> n % LimbBase]

\* math.MaxInt64 = 2^63 - 1.
MaxInt64 == [hi |-> (TopBase \div 2) - 1, mid |-> LimbBase - 1, lo |-> LimbBase - 1]

\* The sign bit of the two's-complement pattern.
IsNeg64(x) == x.hi >= TopBase \div 2

\* x + y on int64: the sum modulo 2^64.
Add64(x, y) ==
  LET l == x.lo + y.lo
      m == x.mid + y.mid + (l \div LimbBase)
      h == x.hi + y.hi + (m \div LimbBase)
  IN  [hi |-> h % TopBase, mid |-> m % LimbBase, lo |-> l % LimbBase]

\* -x on int64: the two's complement.
Neg64(x) ==
  Add64([hi |-> TopBase - 1 - x.hi, mid |-> LimbBase - 1 - x.mid,
         lo |-> LimbBase - 1 - x.lo], I64(1))

\* The bit pattern read as an unsigned number, compared limb by limb.
ULt64(x, y) ==
  \/ x.hi < y.hi
  \/ x.hi = y.hi /\ x.mid < y.mid
  \/ x.hi = y.hi /\ x.mid = y.mid /\ x.lo < y.lo

\* x < y on int64 (signed).
Lt64(x, y) ==
  IF IsNeg64(x) # IsNeg64(y) THEN IsNeg64(x) ELSE ULt64(x, y)

Le64(x, y) == ~Lt64(y, x)

\* An int64 in 0..63 as a bit position; 64 stands for "64 or more".
ShiftCount(x) == IF x.hi = 0 /\ x.mid = 0 /\ x.lo < 64 THEN x.lo ELSE 64

\* The value of a small non-negative int64 (one that fits the low limb).
Small(x) == x.lo

---------------------------------------------------------------------------
(* strings                                                                 *)

Digits == <<"0", "1", "2", "3", "4", "5", "6", "7", "8", "9">>
Upper  == <<"A", "B", "C", "D", "E", "F", "G", "H", "I", "J", "K", "L", "M",
            "N", "O", "P", "Q", "R", "S", "T", "U", "V", "W", "X", "Y", "Z">>
Lower  == <<"a", "b", "c", "d", "e", "f", "g", "h", "i", "j", "k", "l", "m",
            "n", "o", "p", "q", "r", "s", "t", "u", "v", "w", "x", "y", "z">>

IsDigit(c) == \E i \in 1..10 : Digits[i] = c
DigitVal(c) == (CHOOSE i \in 1..10 : Digits[i] = c) - 1

ToLowerChar(c) ==
  IF \E i \in 1..26 : Upper[i] = c
  THEN Lower[CHOOSE i \in 1..26 : Upper[i] = c]
  ELSE c

\* strings.ToLower
ToLower(s) == [i \in 1..Len(s) |-> ToLowerChar(s[i])]

\* strings.HasPrefix
HasPrefix(s, p) == Len(s) >= Len(p) /\ SubSeq(s, 1, Len(p)) = p

\* strings.Split(s, sep) for a one-character sep: the pieces between the
\* separators, empty pieces included; always at least one piece.
RECURSIVE SplitFrom(_, _, _, _)
SplitFrom(s, sep, i, cur) ==
  IF i > Len(s) THEN <<cur>>
  ELSE IF s[i] = sep THEN <<cur>> \o SplitFrom(s, sep, i + 1, <<>>)
  ELSE SplitFrom(s, sep, i + 1, Append(cur, s[i]))

Split(s, sep) == SplitFrom(s, sep, 1, <<>>)

\* strings.FieldsFunc(s, f): the maximal runs of characters not satisfying
\* f; no empty pieces.  seps is the set of characters f accepts.
RECURSIVE FieldsFrom(_, _, _, _)
FieldsFrom(s, seps, i, cur) ==
  IF i > Len(s) THEN (IF cur = <<>> THEN <<>> ELSE <<cur>>)
  ELSE IF s[i] \in seps
       THEN (IF cur = <<>> THEN <<>> ELSE <<cur>>) \o FieldsFrom(s, seps, i + 1, <<>>)
       ELSE FieldsFrom(s, seps, i + 1, Append(cur, s[i]))

\* unicode.IsSpace on the characters the model uses.
Spaces == {" ", "\t", "\n"}

\* strings.Fields
Fields(s) == FieldsFrom(s, Spaces, 1, <<>>)

---------------------------------------------------------------------------
(* strconv.Atoi and mustParseInt                                           *)

\* n*10 + d on uint64, with the overflow strconv.ParseUint detects.
MulAdd10(x, d) ==
  LET l == x.lo * 10 + d
      m == x.mid * 10 + (l \div LimbBase)
      h == x.hi * 10 + (m \div LimbBase)
  IN  [over |-> h >= TopBase,
       v |-> [hi |-> h % TopBase, mid |-> m % LimbBase, lo |-> l % LimbBase]]

\* The decimal digits of s from position i on, accumulated into acc:
\* "syntax" on a non-digit, "range" when the value leaves uint64.
RECURSIVE ParseDigits(_, _, _)
ParseDigits(s, i, acc) ==
  IF i > Len(s) THEN [err |-> "", v |-> acc]
  ELSE IF ~IsDigit(s[i]) THEN [err |-> "syntax", v |-> I64(0)]
  ELSE LET n == MulAdd10(acc, DigitVal(s[i]))
       IN  IF n.over
           THEN \* the rest is still scanned for a syntax error first
                (IF \E j \in i..Len(s) : ~IsDigit(s[j])
                 THEN [err |-> "syntax", v |-> I64(0)]
                 ELSE [err |-> "range", v |-> I64(0)])
           ELSE ParseDigits(s, i + 1, n.v)

SyntaxError == [err |-> "syntax", v |-> I64(0)]
RangeError  == [err |-> "range", v |-> I64(0)]

\* The sign applied to the digits' value u, and the range check of ParseInt:
\* the value must lie in -2^63 .. 2^63-1.
AtoiSigned(neg, u) ==
  IF u.err # "" THEN u
  ELSE IF ~neg /\ IsNeg64(u.v) THEN RangeError
  ELSE IF neg /\ IsNeg64(u.v) /\ u.v # Neg64(u.v) THEN RangeError
  ELSE [err |-> "", v |-> IF neg THEN Neg64(u.v) ELSE u.v]

\* The digits after the optional sign.
AtoiDigits(neg, body) ==
  IF Len(body) = 0 THEN SyntaxError
  ELSE AtoiSigned(neg, ParseDigits(body, 1, I64(0)))

\* strconv.Atoi on a 64-bit platform: an optional sign, then decimal digits.
Atoi(s) ==
  IF Len(s) = 0 THEN SyntaxError
  ELSE AtoiDigits(s[1] = "-", IF s[1] \in {"+", "-"} THEN Tail(s) ELSE s)

Ok(v)     == [kind |-> "ok", v |-> v]
Err(e)    == [kind |-> "err", err |-> e]
Panic(m)  == [kind |-> "panic", msg |-> m]

\* The two checks of mustParseInt on Atoi's result a.
checkInt(a) ==
  IF a.err # "" THEN Err("IntParseFailure")
  ELSE IF IsNeg64(a.v) THEN Err("NegativeNumber")
  ELSE Ok(a.v)

\* mustParseInt parses the given expression as an int or returns an error.
mustParseInt(expr) == checkInt(Atoi(expr))

\* names is a function from lower-case names to values; nil is the empty one.
parseIntOrName(expr, names) ==
  IF ToLower(expr) \in DOMAIN names
  THEN Ok(I64(names[ToLower(expr)]))
  ELSE mustParseInt(expr)

---------------------------------------------------------------------------
(* The bounds for each field                                               *)

MaxSecond == 59
MaxMinute == 59
MaxHour   == 23
MinDom    == 1
MaxDom    == 31
MinMonth  == 1
MaxMonth  == 12
MaxDow    == 6

monthNames ==
  (<<"j","a","n">> :> 1) @@ (<<"f","e","b">> :> 2) @@ (<<"m","a","r">> :> 3) @@
  (<<"a","p","r">> :> 4) @@ (<<"m","a","y">> :> 5) @@ (<<"j","u","n">> :> 6) @@
  (<<"j","u","l">> :> 7) @@ (<<"a","u","g">> :> 8) @@ (<<"s","e","p">> :> 9) @@
  (<<"o","c","t">> :> 10) @@ (<<"n","o","v">> :> 11) @@ (<<"d","e","c">> :> 12)

dowNames ==
  (<<"s","u","n">> :> 0) @@ (<<"m","o","n">> :> 1) @@ (<<"t","u","e">> :> 2) @@
  (<<"w","e","d">> :> 3) @@ (<<"t","h","u">> :> 4) @@ (<<"f","r","i">> :> 5) @@
  (<<"s","a","t">> :> 6)

seconds == [min |-> 0, max |-> MaxSecond, names |-> <<>>]
minutes == [min |-> 0, max |-> MaxMinute, names |-> <<>>]
hours   == [min |-> 0, max |-> MaxHour, names |-> <<>>]
dom     == [min |-> MinDom, max |-> MaxDom, names |-> <<>>]
months  == [min |-> MinMonth, max |-> MaxMonth, names |-> monthNames]
dow     == [min |-> 0, max |-> MaxDow, names |-> dowNames]

\* The six bounds in the order of places.
fieldBounds == <<seconds, minutes, hours, dom, months, dow>>

---------------------------------------------------------------------------
(* bitmasks                                                                *)

StarBitPos == 63

\* starBit = 1 << 63
starBit == {StarBitPos}

\* toInt64(math.MaxUint64): every bit set.
AllOnes == 0..StarBitPos

\* x << k for a bitmask x and a shift count 0..64 (64: everything is
\* shifted out).
Shl(x, k) == {b + k : b \in {c \in x : c + k <= StarBitPos}}

\* ^x
Not(x) == AllOnes \ x

\* The loop of getBits: for i := lowerLimit; i <= upperLimit; i += step.
\* A negative shift count is a run-time panic of the Go program.
RECURSIVE getBitsLoop(_, _, _, _)
getBitsLoop(i, upperLimit, step, bits) ==
  IF ~Le64(i, upperLimit) THEN Ok(bits)
  ELSE IF IsNeg64(i) THEN Panic("negative shift amount")
  ELSE getBitsLoop(Add64(i, step), upperLimit, step,
                   bits \cup Shl({0}, ShiftCount(i)))

\* getBits sets all bits in the range [min, max], modulo the given step size.
getBits(lowerLimit, upperLimit, step) ==
  IF step = I64(1)
  THEN LET up == Add64(upperLimit, I64(1))
       IN  IF IsNeg64(up) \/ IsNeg64(lowerLimit)
           THEN Panic("negative shift amount")
           ELSE Ok(Not(Shl(AllOnes, ShiftCount(up)))
                   \cap Shl(AllOnes, ShiftCount(lowerLimit)))
  ELSE getBitsLoop(lowerLimit, upperLimit, step, {})

\* all returns all bits within the given bounds (plus the star bit).
all(r) == getBits(I64(r.min), I64(r.max), I64(1)).v \cup starBit

---------------------------------------------------------------------------
(* getRange and getField                                                   *)

\* The end of getRange: the bits of getBits (or its panic) with the star bit.
withExtra(b, extra) == IF b.kind = "panic" THEN b ELSE Ok(b.v \cup extra)

\* The four validations of getRange, in the code's order, then getBits.
\* step is the result of the step's parse.
getRangeCheck(start, end, step, extra, r) ==
  IF step.kind = "err" THEN step
  ELSE IF Lt64(start, I64(r.min)) THEN Err("RangeBelowMinimum")
  ELSE IF Lt64(I64(r.max), end) THEN Err("RangeAboveMaximum")
  ELSE IF Lt64(end, start) THEN Err("RangeInverted")
  ELSE IF step.v = I64(0) THEN Err("NonPositiveStep")
  ELSE withExtra(getBits(start, end, step.v), extra)

\* The switch on len(rangeAndStep).  start and end are the results of the
\* switch on len(lowAndHigh); an error of theirs returns before the step
\* is looked at.
getRangeStep(rangeAndStep, singleDigit, start, end, extra, r) ==
  IF end.kind = "err" THEN end
  ELSE IF Len(rangeAndStep) = 1
       THEN getRangeCheck(start.v, end.v, Ok(I64(1)), extra, r)
  ELSE IF Len(rangeAndStep) = 2
       THEN getRangeCheck(start.v, IF singleDigit THEN I64(r.max) ELSE end.v,
                          mustParseInt(rangeAndStep[2]), extra, r)
  ELSE Err("TooManySlashes")

\* The switch on len(lowAndHigh), after start has been parsed: the end of
\* the range, or the error that returns (start's own included).
rangeEnd(lowAndHigh, start, names) ==
  IF start.kind = "err" THEN start
  ELSE IF Len(lowAndHigh) = 1 THEN start
  ELSE IF Len(lowAndHigh) = 2 THEN parseIntOrName(lowAndHigh[2], names)
  ELSE Err("TooManyHyphens")

\* The non-wildcard branch of getRange, start being the parse of lowAndHigh[0].
getRangeValues(rangeAndStep, lowAndHigh, start, r) ==
  getRangeStep(rangeAndStep, Len(lowAndHigh) = 1, start,
               rangeEnd(lowAndHigh, start, r.names), {}, r)

\* The branch of getRange on lowAndHigh[0].
getRangeLow(rangeAndStep, lowAndHigh, r) ==
  IF lowAndHigh[1] = <<"*">> \/ lowAndHigh[1] = <<"?">>
  THEN getRangeStep(rangeAndStep, Len(lowAndHigh) = 1, Ok(I64(r.min)),
                    Ok(I64(r.max)), starBit, r)
  ELSE getRangeValues(rangeAndStep, lowAndHigh,
                      parseIntOrName(lowAndHigh[1], r.names), r)

\* lowAndHigh = strings.Split(rangeAndStep[0], "-")
getRangeSplit(rangeAndStep, r) ==
  getRangeLow(rangeAndStep, Split(rangeAndStep[1], "-"), r)

\* getRange returns the bits indicated by the given expression.
getRange(expr, r) == getRangeSplit(Split(expr, "/"), r)

\* The loop of getField over the comma-separated ranges; bit is the result
\* of getRange on ranges[i].  An error ends the loop (the partial bits
\* returned beside the error are not used by any caller).
RECURSIVE getFieldLoop(_, _, _, _)
RECURSIVE getFieldStep(_, _, _, _, _)
getFieldStep(ranges, i, bits, r, bit) ==
  IF bit.kind # "ok" THEN bit
  ELSE getFieldLoop(ranges, i + 1, bits \cup bit.v, r)

getFieldLoop(ranges, i, bits, r) ==
  IF i > Len(ranges) THEN Ok(bits)
  ELSE getFieldStep(ranges, i, bits, r, getRange(ranges[i], r))

\* getField returns the bits of a field: a comma-separated list of ranges.
getField(field, r) == getFieldLoop(FieldsFrom(field, {","}, 1, <<>>), 1, {}, r)

---------------------------------------------------------------------------
(* time.Duration, time.ParseDuration, Duration.Minutes and Duration.Hours  *)
(*                                                                         *)
(* A Duration (an int64 count of nanoseconds) is a record [neg, mag]: its  *)
(* sign and its magnitude, the magnitude a 64-bit limb number.             *)

\* x * k on uint64 for a small k (k <= 500), with the overflow out of 64 bits.
MulSmall(x, k) ==
  LET l == x.lo * k
      m == x.mid * k + (l \div LimbBase)
      h == x.hi * k + (m \div LimbBase)
  IN  [over |-> h >= TopBase,
       v |-> [hi |-> h % TopBase, mid |-> m % LimbBase, lo |-> l % LimbBase]]

\* x times the product of the small factors ks.
RECURSIVE MulBy(_, _)
MulBy(x, ks) ==
  IF ks = <<>> THEN [over |-> FALSE, v |-> x]
  ELSE LET a == MulSmall(x, Head(ks))
           b == MulBy(a.v, Tail(ks))
       IN  [over |-> a.over \/ b.over, v |-> b.v]

\* x \div k on uint64 for a small k (k <= 500).
DivSmall(x, k) ==
  LET h == x.hi \div k
      m == (x.hi % k) * LimbBase + x.mid
      l == (m % k) * LimbBase + x.lo
  IN  [hi |-> h, mid |-> m \div k, lo |-> l \div k]

\* x divided by the product of the small factors ks.
RECURSIVE DivBy(_, _)
DivBy(x, ks) == IF ks = <<>> THEN x ELSE DivBy(DivSmall(x, Head(ks)), Tail(ks))

\* x - y on uint64 (y <= x).
Sub64(x, y) == Add64(x, Neg64(y))

\* 1 << 63
Pow63 == [hi |-> TopBase \div 2, mid |-> 0, lo |-> 0]

\* time's unitMap: the nanoseconds of each unit, as a product of factors.
unitMap ==
  (<<"n","s">> :> <<>>) @@
  (<<"u","s">> :> <<100, 10>>) @@
  (<<"m","s">> :> <<100, 100, 100>>) @@
  (<<"s">> :> <<100, 100, 100, 100, 10>>) @@
  (<<"m">> :> <<60, 100, 100, 100, 100, 10>>) @@
  (<<"h">> :> <<60, 60, 100, 100, 100, 100, 10>>)

\* time.Minute, time.Hour and time.Hour*24 in nanoseconds.
MinuteNs == MulBy(I64(1), unitMap[<<"m">>]).v
HourNs   == MulBy(I64(1), unitMap[<<"h">>]).v
DayNs    == MulBy(HourNs, <<24>>).v

\* time.leadingInt: the digits from position i on; overflow past 1<<63.
RECURSIVE leadingInt(_, _, _)
leadingInt(s, i, x) ==
  IF i > Len(s) \/ ~IsDigit(s[i]) THEN [err |-> FALSE, v |-> x, next |-> i]
  ELSE IF ULt64(DivSmall(Pow63, 10), x) THEN [err |-> TRUE, v |-> x, next |-> i]
  ELSE LET y == MulAdd10(x, DigitVal(s[i])).v
       IN  IF ULt64(Pow63, y) THEN [err |-> TRUE, v |-> x, next |-> i]
           ELSE leadingInt(s, i + 1, y)

\* The end of the unit that starts at position i: the first '.' or digit.
RECURSIVE unitEnd(_, _)
unitEnd(s, i) ==
  IF i > Len(s) \/ s[i] = "." \/ IsDigit(s[i]) THEN i ELSE unitEnd(s, i + 1)

\* The loop of time.ParseDuration over the (number, unit) pairs, for texts
\* without a fraction: the model's duration texts hold no '.'.  The steps
\* of one round: the number (leadingInt), the unit, v *= unit, d += v.
RECURSIVE parseDurationLoop(_, _, _)
RECURSIVE parseDurationUnit(_, _, _)
RECURSIVE parseDurationScale(_, _, _, _, _)
RECURSIVE parseDurationAdd(_, _, _, _)
RECURSIVE parseDurationNext(_, _, _)

parseDurationNext(s, d, k) ==
  IF ULt64(Pow63, d) THEN Err("invalid duration")
  ELSE parseDurationLoop(s, k, d)

parseDurationAdd(s, d, v, k) ==
  IF v.over \/ ULt64(Pow63, v.v) THEN Err("invalid duration")
  ELSE parseDurationNext(s, Add64(d, v.v), k)

parseDurationScale(s, d, v, j, k) ==
  IF k = j THEN Err("missing unit in duration")
  ELSE IF SubSeq(s, j, k - 1) \notin DOMAIN unitMap THEN Err("unknown unit in duration")
  ELSE parseDurationAdd(s, d, MulBy(v, unitMap[SubSeq(s, j, k - 1)]), k)

parseDurationUnit(s, d, n) ==
  IF n.err THEN Err("invalid duration")
  ELSE parseDurationScale(s, d, n.v, n.next, unitEnd(s, n.next))

parseDurationLoop(s, i, d) ==
  IF i > Len(s) THEN Ok(d)
  ELSE IF ~IsDigit(s[i]) THEN Err("invalid duration")
  ELSE parseDurationUnit(s, d, leadingInt(s, i, I64(0)))

\* The end of time.ParseDuration: the sign and the range of the sum d.
signDuration(neg, d) ==
  IF d.kind = "err" THEN d
  ELSE IF neg THEN Ok([neg |-> d.v # I64(0), mag |-> d.v])
  ELSE IF ULt64(MaxInt64, d.v) THEN Err("invalid duration")
  ELSE Ok([neg |-> FALSE, mag |-> d.v])

\* time.ParseDuration, s being the text after the optional sign.
parseUnsigned(neg, s) ==
  IF s = <<"0">> THEN Ok([neg |-> FALSE, mag |-> I64(0)])
  ELSE IF s = <<>> THEN Err("invalid duration")
  ELSE signDuration(neg, parseDurationLoop(s, 1, I64(0)))

\* time.ParseDuration
ParseDuration(text) ==
  IF Len(text) > 0 /\ text[1] \in {"+", "-"}
  THEN parseUnsigned(text[1] = "-", Tail(text))
  ELSE parseUnsigned(FALSE, text)

\* duration < limit, for a positive limit.
DurationLt(d, limit) == d.neg \/ ULt64(d.mag, limit)

\* floor(log2(n)) for n >= 1.
RECURSIVE Log2(_)
Log2(n) == IF n < 2 THEN 0 ELSE 1 + Log2(n \div 2)

\* The float64 that float64(whole) + float64(nsec)/unit evaluates to, for a
\* magnitude whole + nsec/unit with 0 <= nsec < unit: the record [int, frac]
\* stands for int when frac is FALSE and for a float64 strictly between int
\* and int+1 when frac is TRUE.  IEEE-754 round-to-nearest: with
\* e = floor(log2(whole)), one unit in the last place of whole is 2^(e-52);
\* a quotient below half of it is rounded away, one within half of it of 1
\* rounds the sum up to whole+1.  absorb is floor(unit / 2^(53-eMax)), the
\* largest nsec rounded away at exponent eMax (unit / 2^(53-e) is never an
\* integer, so no tie occurs).
FloatSum(whole, nsec, unitNs, absorb, eMax) ==
  IF nsec = I64(0) THEN [int |-> whole, frac |-> FALSE]
  ELSE IF whole = 0 THEN [int |-> 0, frac |-> TRUE]
  ELSE LET t == I64(absorb \div (2 ^ (eMax - Log2(whole))))
       IN  IF Le64(nsec, t) THEN [int |-> whole, frac |-> FALSE]
           ELSE IF Le64(Sub64(unitNs, nsec), t) THEN [int |-> whole + 1, frac |-> FALSE]
           ELSE [int |-> whole, frac |-> TRUE]

\* floor(6e10 / 2^26) and floor(3.6e12 / 2^32): the nanoseconds that vanish
\* next to 2^27 minutes and next to 2^21 hours.
AbsorbMinute == 894
AbsorbHour   == 838
ExpMinute    == 27
ExpHour      == 21

\* d / unit and d % unit on the magnitude, q being the quotient.
QuoRem(mag, q, factors) ==
  [quo |-> Small(q) + q.mid * LimbBase, rem |-> Sub64(mag, MulBy(q, factors).v)]

\* Duration.Minutes: min := d / Minute; nsec := d % Minute;
\* float64(min) + float64(nsec)/(60*1e9).  The magnitude of the result.
MinutesOf(qr) == FloatSum(qr.quo, qr.rem, MinuteNs, AbsorbMinute, ExpMinute)
Minutes(d) ==
  MinutesOf(QuoRem(d.mag, DivBy(d.mag, unitMap[<<"m">>]), unitMap[<<"m">>]))

\* Duration.Hours: hour := d / Hour; nsec := d % Hour;
\* float64(hour) + float64(nsec)/(60*60*1e9).  The magnitude of the result.
HoursOf(qr) == FloatSum(qr.quo, qr.rem, HourNs, AbsorbHour, ExpHour)
Hours(d) ==
  HoursOf(QuoRem(d.mag, DivBy(d.mag, unitMap[<<"h">>]), unitMap[<<"h">>]))

\* int64(math.Ceil(x)) for the float64 x of sign neg and magnitude f.
CeilFloat(neg, f) ==
  IF neg THEN 0 - f.int ELSE f.int + (IF f.frac THEN 1 ELSE 0)

\* int64(math.Ceil(x / 24)) for a float64 x >= 24 of magnitude f.  The
\* division is exact when x is a whole multiple of 24 and otherwise stays
\* strictly between the neighbouring integers.
CeilFloatDiv24(f) ==
  IF f.frac \/ f.int % 24 # 0 THEN (f.int \div 24) + 1 ELSE f.int \div 24

---------------------------------------------------------------------------
(* ParseOption, Parser, expandFields, parseDescriptor and Parse            *)

\* A ParseOption value is the set of its flags.
places   == <<"Second", "Minute", "Hour", "Dom", "Month", "Dow">>
defaults == << <<"0">>, <<"0">>, <<"0">>, <<"*">>, <<"*">>, <<"*">> >>

NewParser(options) ==
  IF "DowOptional" \in options
  THEN [options |-> options \cup {"Dow"}, optionals |-> 1]
  ELSE [options |-> options, optionals |-> 0]

standardParser ==
  NewParser({"Minute", "Hour", "Dom", "Month", "Dow", "Descriptor"})

defaultParser ==
  NewParser({"Second", "Minute", "Hour", "Dom", "Month", "DowOptional", "Descriptor"})

\* The loop of expandFields over places; n counts the fields consumed.
\* Indexing fields past its length is a run-time panic of the Go program.
RECURSIVE expandLoop(_, _, _, _, _)
expandLoop(fields, options, i, n, expFields) ==
  IF i > Len(places) THEN Ok(expFields)
  ELSE IF places[i] \in options
       THEN IF n >= Len(fields) THEN Panic("index out of range")
            ELSE IF n + 1 = Len(fields)
                 THEN Ok([expFields EXCEPT ![i] = fields[n + 1]])
                 ELSE expandLoop(fields, options, i + 1, n + 1,
                                 [expFields EXCEPT ![i] = fields[n + 1]])
       ELSE IF n = Len(fields) THEN Ok(expFields)
            ELSE expandLoop(fields, options, i + 1, n, expFields)

\* expandFields without the walk over the enabled places: the fields fill
\* the first slots whatever the options enable.
expandFieldsInOrder(fields, options) ==
  Ok([i \in 1..Len(places) |-> IF i <= Len(fields) THEN fields[i] ELSE defaults[i]])

expandFields(fields, options) == expandLoop(fields, options, 1, 0, defaults)

RepeatMarker == 1001

Schedule(second, minute, hour, dayofmonth, month, dayofweek, rh, rm, rd) ==
  [Second |-> second, Minute |-> minute, Hour |-> hour, Dom |-> dayofmonth,
   Month |-> month, Dow |-> dayofweek,
   RepeatHour |-> rh, RepeatMin |-> rm, RepeatDate |-> rd]

\* 1 << r.min
MinBit(r) == Shl({0}, r.min)

every == <<"@", "e", "v", "e", "r", "y", " ">>

\* The "@every" branch without its else branches: the minutes are always
\* set, and the hours too from one hour on.
everyScheduleBoth(duration) ==
  IF duration.kind = "err" THEN Err("InvalidDuration")
  ELSE Ok(Schedule({}, {}, {}, {}, {}, {},
                   IF DurationLt(duration.v, HourNs) THEN 0
                   ELSE CeilFloat(FALSE, Hours(duration.v)),
                   CeilFloat(duration.v.neg, Minutes(duration.v)), 0))

\* The three magnitudes of the "@every" branch, duration being the result
\* of time.ParseDuration.
everySchedule(duration) ==
  IF duration.kind = "err" THEN Err("InvalidDuration")
  ELSE IF DurationLt(duration.v, HourNs)
       THEN Ok(Schedule({}, {}, {}, {}, {}, {}, 0,
                        CeilFloat(duration.v.neg, Minutes(duration.v)), 0))
  ELSE IF DurationLt(duration.v, DayNs)
       THEN Ok(Schedule({}, {}, {}, {}, {}, {},
                        CeilFloat(FALSE, Hours(duration.v)), 0, 0))
  ELSE Ok(Schedule({}, {}, {}, {}, {}, {}, 0, 0,
                   CeilFloatDiv24(Hours(duration.v))))

\* The "@every <duration>" branch of parseDescriptor.
parseEvery(descriptor) ==
  everySchedule(ParseDuration(SubSeq(descriptor, Len(every) + 1, Len(descriptor))))

\* parseDescriptor returns a predefined schedule for the expression.
parseDescriptor(descriptor) ==
  IF descriptor \in {<<"@","y","e","a","r","l","y">>,
                     <<"@","a","n","n","u","a","l","l","y">>}
  THEN Ok(Schedule(MinBit(seconds), MinBit(minutes), MinBit(hours), MinBit(dom),
                   MinBit(months), all(dow), 0, 0, RepeatMarker))
  ELSE IF descriptor = <<"@","m","o","n","t","h","l","y">>
  THEN Ok(Schedule(MinBit(seconds), MinBit(minutes), MinBit(hours), MinBit(dom),
                   all(months), all(dow), 0, 0, RepeatMarker))
  ELSE IF descriptor = <<"@","w","e","e","k","l","y">>
  THEN Ok(Schedule(MinBit(seconds), MinBit(minutes), MinBit(hours), all(dom),
                   all(months), MinBit(dow), 0, 0, RepeatMarker))
  ELSE IF descriptor \in {<<"@","d","a","i","l","y">>,
                          <<"@","m","i","d","n","i","g","h","t">>}
  THEN Ok(Schedule(MinBit(seconds), MinBit(minutes), MinBit(hours), all(dom),
                   all(months), all(dow), 0, 0, RepeatMarker))
  ELSE IF descriptor = <<"@","h","o","u","r","l","y">>
  THEN Ok(Schedule(MinBit(seconds), MinBit(minutes), all(hours), all(dom),
                   all(months), all(dow), 0, 0, RepeatMarker))
  ELSE IF HasPrefix(descriptor, every) THEN parseEvery(descriptor)
  ELSE Err("UnrecognizedDescriptor")

\* The end of Parse: res holds the six results of getField; the first
\* error (or panic) in the order of the fields is what Parse returns, the
\* fields after it not being evaluated.
firstError(res) ==
  IF \E i \in 1..Len(places) : res[i].kind # "ok"
  THEN res[CHOOSE i \in 1..Len(places) :
             /\ res[i].kind # "ok"
             /\ \A j \in 1..(i - 1) : res[j].kind = "ok"]
  ELSE Ok(Schedule(res[1].v, res[2].v, res[3].v, res[4].v, res[5].v,
                   res[6].v, 0, 0, 0))

\* The field evaluation of Parse over the six expanded fields.
parseFields(exp) ==
  IF exp.kind = "panic" THEN exp
  ELSE firstError([i \in 1..Len(places) |-> getField(exp.v[i], fieldBounds[i])])

\* The field-count validation with the upper limit only.
parseCountedUpperOnly(p, fields, lowerLimit, upperLimit) ==
  IF Len(fields) > upperLimit
  THEN [kind |-> "err", err |-> "FieldCountExact",
        expected |-> <<upperLimit>>, found |-> Len(fields)]
  ELSE parseFields(expandFields(fields, p.options))

\* The field-count validation of Parse and what follows it.
parseCounted(p, fields, lowerLimit, upperLimit) ==
  IF Len(fields) < lowerLimit \/ Len(fields) > upperLimit
  THEN IF lowerLimit = upperLimit
       THEN [kind |-> "err", err |-> "FieldCountExact",
             expected |-> <<lowerLimit>>, found |-> Len(fields)]
       ELSE [kind |-> "err", err |-> "FieldCountRange",
             expected |-> <<lowerLimit, upperLimit>>, found |-> Len(fields)]
  ELSE parseFields(expandFields(fields, p.options))

\* upperLimit: the number of places the options enable.
upperLimitOf(options) ==
  Cardinality({i \in 1..Len(places) : places[i] \in options})

\* Parser.Parse
Parse(p, spec) ==
  IF Len(spec) = 0 THEN Err("EmptySpec")
  ELSE IF spec[1] = "@" /\ "Descriptor" \in p.options THEN parseDescriptor(spec)
  ELSE parseCounted(p, Fields(spec), upperLimitOf(p.options) - p.optionals,
                    upperLimitOf(p.options))

---------------------------------------------------------------------------
(* The inputs of the calls                                                 *)

\* The decimal text of a natural number.
RECURSIVE Itoa(_)
Itoa(n) == IF n < 10 THEN <<Digits[n + 1]>> ELSE Append(Itoa(n \div 10), Digits[(n % 10) + 1])

\* The pieces joined by sep.
RECURSIVE Join(_, _)
Join(pieces, sep) ==
  IF pieces = <<>> THEN <<>>
  ELSE IF Len(pieces) = 1 THEN pieces[1]
  ELSE pieces[1] \o sep \o Join(Tail(pieces), sep)

\* A token of a range expression: its text, and for a decimal number its
\* value (big: a number past every field bound, whose value is not needed).
Num(n)    == [text |-> Itoa(n), kind |-> "num", n |-> n]
Big(text) == [text |-> text, kind |-> "big", n |-> 0]
Word(text, kind) == [text |-> text, kind |-> kind, n |-> 0]

MaxInt64Text == <<"9","2","2","3","3","7","2","0","3","6","8","5","4","7","7","5","8","0","7">>
Pow63Text    == <<"9","2","2","3","3","7","2","0","3","6","8","5","4","7","7","5","8","0","8">>
Pow62Text    == <<"4","6","1","1","6","8","6","0","1","8","4","2","7","3","8","7","9","0","4">>

\* The values tried in a range: the edges of the six bounds and some
\* values between them.
ValueSet == {0, 1, 2, 3, 5, 6, 7, 12, 13, 23, 24, 31, 32, 59, 60}

Star  == Word(<<"*">>, "star")
Quest == Word(<<"?">>, "star")

NameTokens ==
  {Word(<<"j","a","n">>, "name"), Word(<<"D","E","C">>, "name"),
   Word(<<"M","o","n">>, "name"), Word(<<"s","a","t">>, "name")}

BadTokens ==
  {Word(<<>>, "empty"), Word(<<"x">>, "bad"), Word(<<"+","5">>, "plus")}

ValueTokens == {Num(n) : n \in ValueSet}

\* The steps tried: small ones, 0, and the largest the numeric parse accepts.
SmallSteps == {1, 2, 3, 7, 60}
StepTokens ==
  {Num(n) : n \in SmallSteps \cup {0}} \cup
  {Big(MaxInt64Text), Big(Pow62Text), Word(Pow63Text, "range"),
   Word(<<"-","1">>, "neg"), Word(<<"-","1","2">>, "neg"), Word(<<"-","0">>, "negzero"),
   Word(<<"x">>, "bad"), Word(<<>>, "empty")}

\* The hyphen-separated parts left of the slash: one, two or three tokens.
LowHighs ==
  {<<t>> : t \in ValueTokens \cup NameTokens \cup BadTokens \cup {Star, Quest}} \cup
  {<<a, b>> : a \in ValueTokens, b \in ValueTokens} \cup
  {<<a, b>> : a \in NameTokens \cup BadTokens \cup {Star, Quest},
              b \in {Num(1), Num(5), Word(<<"x">>, "bad"), Word(<<"f","r","i">>, "name")}} \cup
  {<<Num(1), b>> : b \in NameTokens \cup BadTokens} \cup
  {<<a, b, c>> : a \in {Num(1), Star, Quest, Word(<<"x">>, "bad"), Word(<<>>, "empty"),
                        Word(<<"j","a","n">>, "name")},
                 b \in {Num(2), Word(<<>>, "empty")}, c \in {Num(3)}}

\* The slash-separated parts right of the range: none, one or two tokens.
StepLists ==
  {<<>>} \cup {<<t>> : t \in StepTokens} \cup
  {<<Num(2), t>> : t \in {Num(3), Word(<<>>, "empty")}}

\* The text of a range expression with the given parts.
ExprText(low, steps) ==
  Join([i \in 1..(1 + Len(steps)) |->
          IF i = 1 THEN Join([j \in 1..Len(low) |-> low[j].text], <<"-">>)
          ELSE steps[i - 1].text], <<"/">>)

\* The steps handed to getBits directly: those getRange can hand it.
BitSteps == {I64(n) : n \in SmallSteps} \cup {MaxInt64, Atoi(Pow62Text).v}

\* The comma-separated pieces of a field text.
MaxRanges == 3
Pieces ==
  {<<>>, <<"1">>, <<"5">>, <<"1","-","5","/","2">>, <<"*">>, <<"*","/","2">>,
   <<"6","0">>, <<"x">>}
FieldPieces == UNION {[1..k -> Pieces] : k \in 1..MaxRanges}

\* The flags of ParseOption.
PlaceFlags == {places[i] : i \in 1..Len(places)}
AllFlags   == PlaceFlags \cup {"DowOptional", "Descriptor"}

\* The option sets the examples of NewParser's comment name, and the one
\* with an optional field only.
ExampleOptions ==
  {{"Minute", "Hour", "Dom", "Month", "Dow"}, {"Dom", "Month", "Dow"},
   {"Dom", "Month", "DowOptional"}, {"DowOptional", "Descriptor"}}

\* The white space of a spec text: [lead, sep, trail].
WsStyles == {<< <<>>, <<" ">>, <<>> >>, << <<" ">>, <<"\t", " ">>, <<"\n">> >>}

\* The text of the fields, separated and surrounded by white space.
SpecText(fields, ws) == ws[1] \o Join(fields, ws[2]) \o ws[3]

\* The most fields a spec text holds.
MaxFields == 7

\* The fields one position of a spec text may hold instead of the plain one.
SpecialFields ==
  {<<",">>, <<"6","0">>, <<"x">>, <<"1","/">> \o MaxInt64Text, <<"*","/","2">>,
   <<"1","-","5">>, <<"m","o","n">>, <<"?">>, <<"-","1">>, <<"1",",","3">>,
   <<"*","-","1","-","2">>}

\* k fields, all plain, but the one at position i (if i > 0), which is f.
FieldList(k, plain, i, f) == [j \in 1..k |-> IF j = i THEN f ELSE plain]

\* The field lists of the spec texts.
PlainLists == {FieldList(k, <<"*">>, 0, <<>>) : k \in 0..MaxFields}
RichLists ==
  {FieldList(k, plain, 0, <<>>) : k \in 0..MaxFields, plain \in {<<"*">>, <<"1">>}} \cup
  {FieldList(ki[1], plain, ki[2], f) :
     ki \in {x \in (1..MaxFields) \X (1..MaxFields) : x[2] <= x[1]},
     plain \in {<<"*">>, <<"1">>}, f \in SpecialFields}

\* The named descriptors, and texts no descriptor matches.
NamedDescriptors ==
  {<<"@","y","e","a","r","l","y">>, <<"@","a","n","n","u","a","l","l","y">>,
   <<"@","m","o","n","t","h","l","y">>, <<"@","w","e","e","k","l","y">>,
   <<"@","d","a","i","l","y">>, <<"@","m","i","d","n","i","g","h","t">>,
   <<"@","h","o","u","r","l","y">>}
OtherDescriptors ==
  {<<"@">>, <<"@","f","o","o">>, <<"@","D","a","i","l","y">>,
   <<"@","e","v","e","r","y">>, every, every \o <<"5">>, every \o <<"5","x">>,
   every \o <<"m">>, every \o <<"0">>, every \o <<"+","5","m">>,
   every \o <<"1","h","-","5","m">>, every \o <<"5","m","s">>,
   every \o <<"7","u","s">>,
   every \o Pow63Text \o <<"n","s">> \o Pow63Text \o <<"n","s">>}

\* The durations of the "@every" texts: sign, hours, minutes, seconds and
\* nanoseconds, written as <h>h<m>m<s>s<n>ns without the parts that are 0.
DurHours   == {0, 1, 23, 24, 25, 48, 4103, 4104, 2562047}
DurMinutes == {0, 1, 59, 60, 90, 134217728}
DurSeconds == {0, 1, 59}
DurNanos   == {0, 1, 999999999}

DurPart(x, unit) == IF x = 0 THEN <<>> ELSE Itoa(x) \o unit

DurText(d) ==
  (IF d.neg THEN <<"-">> ELSE <<>>) \o
  (IF d.h = 0 /\ d.m = 0 /\ d.s = 0 /\ d.n = 0 THEN <<"0", "s">>
   ELSE DurPart(d.h, <<"h">>) \o DurPart(d.m, <<"m">>) \o DurPart(d.s, <<"s">>)
        \o DurPart(d.n, <<"n", "s">>))

---------------------------------------------------------------------------
(* The state machine.  The package keeps no state between calls: a         *)
(* behaviour is one call, drawn by Init, and the step that runs it.        *)

\* A call of mustParseInt on the text of a token.
MustParseIntCall ==
  \E t \in ValueTokens \cup StepTokens \cup BadTokens \cup NameTokens :
    call = [fn |-> "mustParseInt", expr |-> t.text, tok |-> t]

\* A call of getBits as getRange and all make it: 0 <= lowerLimit <=
\* upperLimit <= 59 and step >= 1.
GetBitsCall ==
  \E lo \in 0..MaxSecond, hi \in 0..MaxSecond, step \in BitSteps :
    /\ lo <= hi
    /\ call = [fn |-> "getBits", lowerLimit |-> lo, upperLimit |-> hi, step |-> step]

\* A call of getRange on the text of a structured expression, against one
\* of the six bounds.
GetRangeCall ==
  \E low \in LowHighs, steps \in StepLists, f \in 1..Len(places) :
    call = [fn |-> "getRange", expr |-> ExprText(low, steps), low |-> low,
            steps |-> steps, r |-> fieldBounds[f]]

\* A call of getField on comma-joined pieces, against one of the six bounds.
GetFieldCall ==
  \E ps \in FieldPieces, f \in 1..Len(places) :
    call = [fn |-> "getField", field |-> Join(ps, <<",">>), pieces |-> ps,
            r |-> fieldBounds[f]]

\* A call of NewParser on any set of flags.
NewParserCall ==
  \E options \in SUBSET AllFlags : call = [fn |-> "NewParser", options |-> options]

\* A call of expandFields as Parse makes it: the options of a parser and a
\* list of fields whose count the parser accepts.  The i-th field is the
\* decimal text of i.
ExpandFieldsCall ==
  \E options \in SUBSET (PlaceFlags \cup {"DowOptional"}), k \in 0..Len(places) :
    LET p == NewParser(options)
        upperLimit == Cardinality(p.options \cap PlaceFlags)
    IN  /\ upperLimit - p.optionals <= k
        /\ k <= upperLimit
        /\ call = [fn |-> "expandFields", fields |-> [i \in 1..k |-> Itoa(i)],
                   options |-> p.options]

\* A call of parseDescriptor: a named descriptor, an "@every" text of a
\* structured duration, or another text starting with "@".
ParseDescriptorCall ==
  \/ \E t \in NamedDescriptors \cup OtherDescriptors :
       call = [fn |-> "parseDescriptor", descriptor |-> t,
               shape |-> IF t \in NamedDescriptors THEN "named" ELSE "other"]
  \/ \E neg \in BOOLEAN, h \in DurHours, m \in DurMinutes, s \in DurSeconds,
        n \in DurNanos :
       LET d == [neg |-> neg, h |-> h, m |-> m, s |-> s, n |-> n]
       IN  call = [fn |-> "parseDescriptor", descriptor |-> every \o DurText(d),
                   shape |-> "every", dur |-> d]

\* The spec texts of the descriptors that reach Parse.
DescriptorTexts ==
  NamedDescriptors \cup
  {<<"@","f","o","o">>, every \o <<"9","0","m">>, every \o <<"0","s">>,
   every \o <<"x">>, every \o <<"2","4","h">>, every \o <<"-","5","m">>,
   every \o <<"4","1","0","4","h","1","n","s">>}

\* A call of Parser.Parse: the parser of any set of flags on a text of
\* plain fields, or the parser of an example on any text.
ParserParseCall ==
  \/ \E options \in SUBSET AllFlags, fs \in PlainLists, ws \in WsStyles :
       call = [fn |-> "Parser.Parse", p |-> NewParser(options),
               spec |-> SpecText(fs, ws), shape |-> "fields", fields |-> fs]
  \/ \E options \in ExampleOptions, fs \in RichLists, ws \in WsStyles :
       call = [fn |-> "Parser.Parse", p |-> NewParser(options),
               spec |-> SpecText(fs, ws), shape |-> "fields", fields |-> fs]
  \/ \E options \in SUBSET AllFlags, t \in {<<>>, <<"@","d","a","i","l","y">>} :
       call = [fn |-> "Parser.Parse", p |-> NewParser(options),
               spec |-> t, shape |-> "text", fields |-> <<>>]
  \/ \E options \in ExampleOptions, t \in DescriptorTexts :
       call = [fn |-> "Parser.Parse", p |-> NewParser(options),
               spec |-> t, shape |-> "text", fields |-> <<>>]

\* A call of ParseStandard or of the package's Parse.
TopLevelCall(fn, p) ==
  \/ \E fs \in RichLists, ws \in WsStyles :
       call = [fn |-> fn, p |-> p, spec |-> SpecText(fs, ws),
               shape |-> "fields", fields |-> fs]
  \/ \E t \in {<<>>} \cup DescriptorTexts :
       call = [fn |-> fn, p |-> p, spec |-> t, shape |-> "text", fields |-> <<>>]

Init ==
  /\ ret = [kind |-> "none"]
  /\ \/ MustParseIntCall
     \/ GetBitsCall
     \/ GetRangeCall
     \/ GetFieldCall
     \/ NewParserCall
     \/ ExpandFieldsCall
     \/ ParseDescriptorCall
     \/ ParserParseCall
     \/ TopLevelCall("ParseStandard", standardParser)
     \/ TopLevelCall("Parse", defaultParser)

Pending(fn) == call.fn = fn /\ ret.kind = "none"

RunMustParseInt ==
  /\ Pending("mustParseInt")
  /\ ret' = mustParseInt(call.expr)
  /\ UNCHANGED call

RunGetBits ==
  /\ Pending("getBits")
  /\ ret' = getBits(I64(call.lowerLimit), I64(call.upperLimit), call.step)
  /\ UNCHANGED call

RunGetRange ==
  /\ Pending("getRange")
  /\ ret' = getRange(call.expr, call.r)
  /\ UNCHANGED call

RunGetField ==
  /\ Pending("getField")
  /\ ret' = getField(call.field, call.r)
  /\ UNCHANGED call

RunNewParser ==
  /\ Pending("NewParser")
  /\ ret' = Ok(NewParser(call.options))
  /\ UNCHANGED call

RunExpandFields ==
  /\ Pending("expandFields")
  /\ ret' = expandFields(call.fields, call.options)
  /\ UNCHANGED call

RunParseDescriptor ==
  /\ Pending("parseDescriptor")
  /\ ret' = parseDescriptor(call.descriptor)
  /\ UNCHANGED call

RunParserParse ==
  /\ Pending("Parser.Parse")
  /\ ret' = Parse(call.p, call.spec)
  /\ UNCHANGED call

\* ParseStandard(standardSpec) = standardParser.Parse(standardSpec)
RunParseStandard ==
  /\ Pending("ParseStandard")
  /\ ret' = Parse(standardParser, call.spec)
  /\ UNCHANGED call

\* Parse(spec) = defaultParser.Parse(spec)
RunParse ==
  /\ Pending("Parse")
  /\ ret' = Parse(defaultParser, call.spec)
  /\ UNCHANGED call

Next ==
  \/ RunMustParseInt
  \/ RunGetBits
  \/ RunGetRange
  \/ RunGetField
  \/ RunNewParser
  \/ RunExpandFields
  \/ RunParseDescriptor
  \/ RunParserParse
  \/ RunParseStandard
  \/ RunParse

Spec == Init /\ [][Next]_vars

---------------------------------------------------------------------------
(* The properties                                                          *)

ParseFns == {"Parser.Parse", "ParseStandard", "Parse"}

\* The call has returned (or aborted).
Done == ret.kind # "none"

\* C1: Parse, and getRange under it, always returns a Schedule or an error
\* value: no input makes it abort the process, a range with in-bounds
\* values and the largest step the numeric parse accepts included.
C1_NeverPanics ==
  call.fn \in ParseFns \cup {"getRange"} => ret.kind # "panic"

\* The text a descriptor call was made on.
CallText == IF call.fn = "parseDescriptor" THEN call.descriptor ELSE call.spec

IsNamed == CallText \in NamedDescriptors
IsEvery == HasPrefix(CallText, every)

Bitmasks(s) == {s.Second, s.Minute, s.Hour, s.Dom, s.Month, s.Dow}
NonZeroRepeats(s) ==
  Cardinality({i \in 1..3 : <<s.RepeatMin, s.RepeatHour, s.RepeatDate>>[i] # 0})

\* Every field of the text holds a range: it does not consist of commas only.
EveryFieldHasRange ==
  \A i \in 1..Len(call.fields) : \E j \in 1..Len(call.fields[i]) : call.fields[i][j] # ","

\* A positive duration of an "@every" call.
PositiveDuration ==
  /\ call.fn = "parseDescriptor"
  /\ call.shape = "every"
  /\ ~call.dur.neg
  /\ call.dur.h + call.dur.m + call.dur.s + call.dur.n > 0

\* C2 (amended): a returned Schedule has one of three shapes.  From field
\* text: the three repeat fields are 0 (and no bitmask is 0 when every field
\* holds a range).  From a named descriptor: the six bitmasks are populated
\* and RepeatDate is the marker 1001, RepeatMin and RepeatHour being 0.
\* From "@every": the six bitmasks are 0 and at most one repeat field is
\* non-zero, exactly one when the duration is positive.
C2_ScheduleShapes ==
  (call.fn \in ParseFns \cup {"parseDescriptor"} /\ ret.kind = "ok") =>
    IF IsNamed
    THEN /\ {} \notin Bitmasks(ret.v)
         /\ ret.v.RepeatDate = RepeatMarker
         /\ ret.v.RepeatMin = 0
         /\ ret.v.RepeatHour = 0
    ELSE IF IsEvery
    THEN /\ Bitmasks(ret.v) = {{}}
         /\ NonZeroRepeats(ret.v) <= 1
         /\ PositiveDuration => NonZeroRepeats(ret.v) = 1
    ELSE /\ NonZeroRepeats(ret.v) = 0
         /\ EveryFieldHasRange => {} \notin Bitmasks(ret.v)

\* C2 as stated: a returned Schedule is a field schedule (bitmasks
\* populated, the repeat fields 0) or an interval schedule (exactly one
\* repeat field non-zero, the six bitmasks 0).
C2_FieldOrInterval ==
  (call.fn \in ParseFns \cup {"parseDescriptor"} /\ ret.kind = "ok") =>
    \/ {} \notin Bitmasks(ret.v) /\ NonZeroRepeats(ret.v) = 0
    \/ Bitmasks(ret.v) = {{}} /\ NonZeroRepeats(ret.v) = 1

\* Parse has returned the marked schedule of "@weekly".
C2_Witness ==
  /\ call.fn \in ParseFns
  /\ call.spec = <<"@","w","e","e","k","l","y">>
  /\ ret.kind = "ok"
  /\ ret.v.RepeatDate = RepeatMarker
  /\ ret.v.Dow = {0}

\* The number of white-space separated fields of the spec text.
FieldCount ==
  Cardinality({i \in 1..Len(call.spec) :
                 /\ call.spec[i] \notin Spaces
                 /\ i = 1 \/ call.spec[i - 1] \in Spaces})

\* The text goes to parseDescriptor.
IsDescriptorCall ==
  /\ Len(call.spec) > 0
  /\ call.spec[1] = "@"
  /\ "Descriptor" \in call.p.options

EnabledCount  == Cardinality(call.p.options \cap PlaceFlags)
OptionalCount == IF "DowOptional" \in call.p.options THEN 1 ELSE 0

FieldCountError ==
  /\ ret.kind = "err"
  /\ ret.err \in {"FieldCountExact", "FieldCountRange"}

\* The field-count error is returned exactly for a count outside the
\* limits, in the form the limits select.
FieldCountRule ==
  /\ FieldCountError <=>
       \/ FieldCount < EnabledCount - OptionalCount
       \/ FieldCount > EnabledCount
  /\ FieldCountError =>
       /\ ret.found = FieldCount
       /\ IF OptionalCount = 0
          THEN ret.err = "FieldCountExact" /\ ret.expected = <<EnabledCount>>
          ELSE /\ ret.err = "FieldCountRange"
               /\ ret.expected = <<EnabledCount - 1, EnabledCount>>
  /\ call.fn = "ParseStandard" => (FieldCountError <=> FieldCount # 5)
  /\ call.fn = "Parse" => (FieldCountError <=> FieldCount \notin {5, 6})

\* C3 (amended): for a non-empty text that is not a descriptor, Parse fails
\* with the field-count error if and only if the number of fields is
\* outside [upperLimit - optionals, upperLimit], in the "exactly" form when
\* the limits are equal; the standard parser accepts 5 fields, the default
\* one 5 or 6.
C3_FieldCount ==
  (call.fn \in ParseFns /\ Done /\ ~IsDescriptorCall /\ call.spec # <<>>)
    => FieldCountRule

\* C3 as stated: the same of every text that is not a descriptor, the
\* empty one included.
C3_FieldCountAnyText ==
  (call.fn \in ParseFns /\ Done /\ ~IsDescriptorCall) => FieldCountRule

\* The standard parser has refused the three fields of "* * *".
C3_Witness ==
  /\ call.fn = "ParseStandard"
  /\ call.spec = <<"*", " ", "*", " ", "*">>
  /\ ret.kind = "err"
  /\ ret.err = "FieldCountExact"
  /\ ret.expected = <<5>>
  /\ ret.found = 3

\* The number of enabled places up to place i.
EnabledUpTo(options, i) == Cardinality({j \in 1..i : places[j] \in options})

\* What slot i holds: the next provided field if the place is enabled and
\* a field is left, the positional default otherwise.
ExpectedSlot(fields, options, i) ==
  IF places[i] \in options /\ EnabledUpTo(options, i) <= Len(fields)
  THEN fields[EnabledUpTo(options, i)]
  ELSE IF i <= 3 THEN <<"0">> ELSE <<"*">>

\* C4: for an accepted list of fields expandFields returns the six slots
\* second, minute, hour, dom, month, dow, the provided fields in the first
\* enabled slots and the positional default in every other slot; it never
\* reads past the provided fields, under Parse either; the default parser
\* reads 5 fields as second, minute, hour, dom, month with day-of-week "*".
C4_ExpandFields ==
  /\ (call.fn = "expandFields" /\ Done) =>
       /\ ret.kind = "ok"
       /\ Len(ret.v) = 6
       /\ \A i \in 1..6 : ret.v[i] = ExpectedSlot(call.fields, call.options, i)
  /\ (call.fn \in ParseFns /\ ret.kind = "panic") => ret.msg # "index out of range"
  /\ (call.fn = "Parse" /\ call.shape = "fields" /\ Len(call.fields) = 5
        /\ ret.kind = "ok") =>
       /\ ret.v.Second = getField(call.fields[1], seconds).v
       /\ ret.v.Minute = getField(call.fields[2], minutes).v
       /\ ret.v.Hour = getField(call.fields[3], hours).v
       /\ ret.v.Dom = getField(call.fields[4], dom).v
       /\ ret.v.Month = getField(call.fields[5], months).v
       /\ ret.v.Dow = (dow.min .. dow.max) \cup {StarBitPos}

\* expandFields has returned for four fields where second is disabled and
\* day-of-week is optional.
C4_Witness ==
  /\ call.fn = "expandFields"
  /\ "Second" \notin call.options
  /\ ret.kind = "ok"
  /\ ret.v = << <<"0">>, <<"1">>, <<"2">>, <<"3">>, <<"4">>, <<"*">> >>

\* C5: when getRange succeeds, the star bit is set only for a "*" or "?"
\* wildcard, and then the value bits are all the positions of [min, max].
C5_StarBitMarksWildcard ==
  (call.fn = "getRange" /\ ret.kind = "ok" /\ StarBitPos \in ret.v) =>
    /\ Len(call.low) = 1
    /\ call.low[1].kind = "star"
    /\ ret.v \ {StarBitPos} = call.r.min .. call.r.max

\* The range is one or two decimal values within the bounds, with no step
\* or with a step of at least 1.
InBoundsRange ==
  /\ call.fn = "getRange"
  /\ Len(call.low) \in {1, 2}
  /\ \A i \in 1..Len(call.low) : call.low[i].kind = "num"
  /\ call.r.min <= call.low[1].n
  /\ call.low[1].n <= call.low[Len(call.low)].n
  /\ call.low[Len(call.low)].n <= call.r.max
  /\ Len(call.steps) <= 1
  /\ Len(call.steps) = 1 =>
       \/ call.steps[1].kind = "num" /\ call.steps[1].n >= 1
       \/ call.steps[1].kind = "big"

\* The last value of the range: B of A-B, max of N/S, N of N.
RangeEnd ==
  IF Len(call.low) = 2 THEN call.low[2].n
  ELSE IF Len(call.steps) = 1 THEN call.r.max
  ELSE call.low[1].n

\* The values start + k*step up to the end; a step past every bound leaves
\* the start only.
SteppedValues ==
  IF Len(call.steps) = 1 /\ call.steps[1].kind = "big" THEN {call.low[1].n}
  ELSE {v \in call.low[1].n .. RangeEnd :
          (v - call.low[1].n) % (IF Len(call.steps) = 1 THEN call.steps[1].n ELSE 1) = 0}

\* C6: an in-bounds A-B/S sets exactly the bits A + k*S <= B, N/S the bits
\* N + k*S <= max, N the bit N, A-B the bits of [A, B]; for step 1 getBits
\* gives the bits of the loop over start..end.
C6_RangeBits ==
  /\ (InBoundsRange /\ Done) => ret = Ok(SteppedValues)
  /\ (call.fn = "getBits" /\ call.step = I64(1) /\ Done) =>
       /\ ret = Ok(call.lowerLimit .. call.upperLimit)
       /\ ret = getBitsLoop(I64(call.lowerLimit), I64(call.upperLimit), I64(1), {})

\* C7: a negative literal as the value of a range expression ("-1") makes
\* getRange fail with NegativeNumber and no other error.
C7_NegativeValue ==
  (/\ call.fn = "getRange"
   /\ Done
   /\ Len(call.low) = 2
   /\ call.low[1].kind = "empty"
   /\ call.low[2].kind = "num"
   /\ call.steps = <<>>) => ret = Err("NegativeNumber")

\* The whole hours of the duration and whether a fraction of an hour is left.
WholeHours(d) == d.h + (d.m \div 60)
FracHours(d)  == d.m % 60 # 0 \/ d.s # 0 \/ d.n # 0

\* The ceiling of a magnitude of the given whole part, under its sign.
ExactCeil(neg, whole, frac) ==
  IF neg THEN -whole ELSE IF frac THEN whole + 1 ELSE whole

\* The schedule of "@every d", in exact arithmetic.
ExactEvery(d) ==
  IF d.neg \/ WholeHours(d) = 0
  THEN Schedule({}, {}, {}, {}, {}, {}, 0,
                ExactCeil(d.neg, d.h * 60 + d.m, d.s # 0 \/ d.n # 0), 0)
  ELSE IF WholeHours(d) < 24
  THEN Schedule({}, {}, {}, {}, {}, {},
                ExactCeil(FALSE, WholeHours(d), FracHours(d)), 0, 0)
  ELSE Schedule({}, {}, {}, {}, {}, {}, 0, 0,
                ExactCeil(FALSE, WholeHours(d) \div 24,
                          WholeHours(d) % 24 # 0 \/ FracHours(d)))

\* C8: for a duration d that parses, "@every d" returns the six bitmasks 0
\* and ceil(d in minutes) in RepeatMin when d < 1 hour, ceil(d in hours) in
\* RepeatHour when 1 hour <= d < 24 hours, ceil(d in hours / 24) in
\* RepeatDate when d >= 24 hours, the other two repeat fields being 0.
C8_EveryCeiling ==
  (call.fn = "parseDescriptor" /\ call.shape = "every" /\ ret.kind = "ok") =>
    ret.v = ExactEvery(call.dur)

\* C9: getRange fails with TooManySlashes for more than one "/", with
\* TooManyHyphens for more than one "-" left of the slash whatever the
\* first token is, and accepts no hyphen part after a wildcard.
C9_SlashesAndHyphens ==
  (call.fn = "getRange" /\ Done) =>
    /\ Len(call.steps) >= 2 => ret = Err("TooManySlashes")
    /\ (Len(call.low) >= 3 /\ Len(call.steps) <= 1) => ret = Err("TooManyHyphens")
    /\ Len(call.low) >= 3 => ret.kind = "err"
    /\ (call.low[1].kind = "star" /\ Len(call.low) >= 2) => ret.kind = "err"

\* C10: when getField succeeds, its value bits (0..62) are a non-empty
\* subset of [min, max].
C10_SomeLegalValue ==
  (call.fn = "getField" /\ ret.kind = "ok") =>
    /\ ret.v \ {StarBitPos} # {}
    /\ ret.v \ {StarBitPos} \subseteq call.r.min .. call.r.max

=============================================================================
